---- MODULE Spec2Model ----
(***************************************************************************)
(* Lattice operations (LUB/GLB) on types with inference variables:         *)
(* compiler/rustc_infer/src/infer/lattice.rs, super_lattice_tys and the    *)
(* LatticeDir capability trait.                                            *)
(*                                                                         *)
(* The type-variable table, the variable allocator, the Sub relation used  *)
(* by relate_bound and the structural relator (super_combine_tys) live     *)
(* outside lattice.rs; they are modelled after their description.          *)
(***************************************************************************)
EXTENDS Integers, Sequences, FiniteSets, TLC

\* Capacity of the type-variable table (environment variables plus pivot).
MaxVars == 3

(***************************************************************************)
(* Type terms.  lattice.rs distinguishes three shapes: ty::Infer(TyVar),   *)
(* ty::Opaque(def_id, substs) and everything else.  A term is a record     *)
(* [k, id, arg]; arg encodes the single substitution argument of an opaque *)
(* type: 0 = none, n > 0 = the type Other(n), n < 0 = the variable         *)
(* TyVar(-n).                                                              *)
(***************************************************************************)
TyVar(n) == [k |-> "Infer", id |-> n, arg |-> 0]
Opaque(d, s) == [k |-> "Opaque", id |-> d, arg |-> s]
Other(n) == [k |-> "Other", id |-> n, arg |-> 0]
Unknown == [k |-> "Unknown", id |-> 0, arg |-> 0]
NoTy == [k |-> "None", id |-> 0, arg |-> 0]

LocalDefs == {1, 2}
ForeignDefs == {3, 4}
is_local(did) == did \in LocalDefs

OtherTys == {Other(1), Other(2)}
OpaqueTys ==
    {Opaque(1, 1), Opaque(1, -1), Opaque(2, 1), Opaque(3, 1), Opaque(3, -1), Opaque(4, 1)}
NonVarTys == OtherTys \cup OpaqueTys

\* The variable a term mentions in its substitution argument (0 if none).
ArgVar(t) == IF t.arg < 0 THEN 0 - t.arg ELSE 0
ArgTy(s) == IF s < 0 THEN TyVar(0 - s) ELSE Other(s)
Concrete(t) == t.k \in {"Other", "Opaque"} /\ t.arg >= 0

\* Terms that are well formed over a table of n variables.
TysOver(n) == {TyVar(i) : i \in 1..n} \cup {t \in NonVarTys : ArgVar(t) <= n}

Lub == "Lub"
Glb == "Glb"
Dirs == {Lub, Glb}

Ok(t) == [ok |-> TRUE, ty |-> t, err |-> "none"]
Err(e) == [ok |-> FALSE, ty |-> NoTy, err |-> e]
NoResult == [ok |-> FALSE, ty |-> NoTy, err |-> "pending"]

(***************************************************************************)
(* Collaborators of lattice.rs.                                            *)
(***************************************************************************)

\* Term Resolver: one level of variable binding, no chase loop.
replace_if_possible(tbl, t) ==
    IF t.k = "Infer" /\ tbl[t.id] # Unknown THEN tbl[t.id] ELSE t

\* Variable Allocator: the new variable is unbound.
next_ty_var(tbl) == Append(tbl, Unknown)
NewestVar(tbl) == TyVar(Len(tbl))

Obligation(kind, a, b) == [kind |-> kind, a |-> a, b |-> b]
opaque_ty_obligation(a, b) == Obligation("Opaque", a, b)

\* Outcome of a relation: success flag, error, updated table and sink.
RelOk(tbl, obls, t) == [res |-> Ok(t), table |-> tbl, obligations |-> obls]
RelErr(tbl, obls, e) == [res |-> Err(e), table |-> tbl, obligations |-> obls]

\* Instantiating variable vid with type t (occurs check included).
instantiate(tbl, obls, vid, t) ==
    IF ArgVar(t) = vid
    THEN RelErr(tbl, obls, "CyclicTy")
    ELSE RelOk([tbl EXCEPT ![vid] = t], obls, t)

\* Equating the substitution arguments of two opaque types of one definition.
relate_substs(tbl, obls, a, b) ==
    LET x == replace_if_possible(tbl, ArgTy(a.arg))
        y == replace_if_possible(tbl, ArgTy(b.arg))
    IN  IF x = y THEN RelOk(tbl, obls, a)
        ELSE IF x.k = "Infer" THEN
            LET r == instantiate(tbl, obls, x.id, y)
            IN  [r EXCEPT !.res = IF r.res.ok THEN Ok(a) ELSE r.res]
        ELSE IF y.k = "Infer" THEN
            LET r == instantiate(tbl, obls, y.id, x)
            IN  [r EXCEPT !.res = IF r.res.ok THEN Ok(a) ELSE r.res]
        ELSE RelErr(tbl, obls, "Mismatch")

\* Structural Relator: relates two terms of matching shape; it also owns
\* variable instantiation, which super_lattice_tys never asks of it.
super_combine_tys(tbl, obls, a, b) ==
    IF a = b THEN RelOk(tbl, obls, a)
    ELSE IF a.k = "Infer" /\ b.k = "Infer"
         THEN RelOk(tbl, Append(obls, Obligation("Subtype", a, b)), a)
    ELSE IF a.k = "Infer" THEN instantiate(tbl, obls, a.id, b)
    ELSE IF b.k = "Infer" THEN instantiate(tbl, obls, b.id, a)
    ELSE IF a.k = "Opaque" /\ b.k = "Opaque" /\ a.id = b.id
         THEN relate_substs(tbl, obls, a, b)
    ELSE RelErr(tbl, obls, "Sorts")

\* Subtyping a <: b, as the Lattice Direction Strategy uses it.
SubRelate(tbl, obls, a, b) ==
    IF a = b THEN RelOk(tbl, obls, a)
    ELSE
        LET x == replace_if_possible(tbl, a)
            y == replace_if_possible(tbl, b)
        IN  IF x.k = "Infer" /\ y.k = "Infer"
            THEN RelOk(tbl, Append(obls, Obligation("Subtype", x, y)), x)
            ELSE IF x.k = "Infer" THEN instantiate(tbl, obls, x.id, y)
            ELSE IF y.k = "Infer" THEN instantiate(tbl, obls, y.id, x)
            ELSE super_combine_tys(tbl, obls, x, y)

\* One step of relate_bound: v is the supertype for Lub, the subtype for Glb.
RelateStep(dir, tbl, obls, v, t) ==
    IF dir = Lub THEN SubRelate(tbl, obls, t, v) ELSE SubRelate(tbl, obls, v, t)

\* LatticeDir::relate_bound: relates v to a first, then to b; the second
\* step is not attempted when the first fails.
relate_bound(dir, tbl, obls, v, a, b) ==
    LET r1 == RelateStep(dir, tbl, obls, v, a)
    IN  IF ~r1.res.ok THEN r1
        ELSE RelateStep(dir, r1.table, r1.obligations, v, b)

(***************************************************************************)
(* super_lattice_tys (lattice.rs 49-122).                                  *)
(***************************************************************************)

\* A collaborator call made by super_lattice_tys itself.
Call(op, v, x, y) == [op |-> op, v |-> v, x |-> x, y |-> y]
Outcome(res, tbl, obls, calls) ==
    [res |-> res, table |-> tbl, obligations |-> obls, calls |-> calls]

\* Variant: the short-circuit is skipped for inference variables.
IdentityShortCircuit_NotForVars(a, b) == a = b /\ a.k # "Infer"

\* `if a == b { return Ok(a); }`, tested on the operands as passed in.
IdentityShortCircuit(a, b) == a = b

\* Patterns of the match on (a.kind(), b.kind()).
IsTyVar(t) == t.k = "Infer"
\* Variant: the whole opaque type is compared instead of its def id.
SameOpaqueDef_WholeType(a, b) == a.k = "Opaque" /\ b.k = "Opaque" /\ a = b
SameOpaqueDef(a, b) == a.k = "Opaque" /\ b.k = "Opaque" /\ a.id = b.id
\* Variant: the policy flag is not consulted.
OpaqueGuard_IgnoresPolicy(define_opaque_types, a, b) ==
    \/ a.k = "Opaque" /\ is_local(a.id)
    \/ b.k = "Opaque" /\ is_local(b.id)
\* Variant: only the first alternative that matches gets its guard tried.
OpaqueGuard_FirstAlternativeOnly(define_opaque_types, a, b) ==
    IF a.k = "Opaque" THEN define_opaque_types /\ is_local(a.id)
    ELSE b.k = "Opaque" /\ define_opaque_types /\ is_local(b.id)
\* `(&Opaque(did, ..), _) | (_, &Opaque(did, ..)) if define_opaque_types() &&
\* did.is_local()`: the guard is tried for each alternative that matches.
OpaqueGuard(define_opaque_types, a, b) ==
    \/ a.k = "Opaque" /\ define_opaque_types /\ is_local(a.id)
    \/ b.k = "Opaque" /\ define_opaque_types /\ is_local(b.id)

\* Variant: the `?` is dropped, the pivot is returned whatever relate_bound says.
PivotArm_IgnoresError(dir, tbl, obls, first, second) ==
    LET tbl1 == next_ty_var(tbl)
        v == NewestVar(tbl1)
        r == relate_bound(dir, tbl1, obls, v, first, second)
    IN  Outcome(Ok(v), r.table, r.obligations,
                <<Call("next_ty_var", v, NoTy, NoTy),
                  Call("relate_bound", v, first, second)>>)

\* Arms 1 and 2: allocate v, relate_bound(v, first, second)?, Ok(v).
PivotArm(dir, tbl, obls, first, second) ==
    LET tbl1 == next_ty_var(tbl)
        v == NewestVar(tbl1)
        r == relate_bound(dir, tbl1, obls, v, first, second)
    IN  Outcome(IF r.res.ok THEN Ok(v) ELSE r.res, r.table, r.obligations,
                <<Call("next_ty_var", v, NoTy, NoTy),
                  Call("relate_bound", v, first, second)>>)

\* Arm 3 and the final arm: infcx.super_combine_tys(this, a, b).
StructuralArm(tbl, obls, a, b) ==
    LET r == super_combine_tys(tbl, obls, a, b)
    IN  Outcome(r.res, r.table, r.obligations,
                <<Call("super_combine_tys", NoTy, a, b)>>)

\* Variant: the opaque operand is returned instead of the first operand.
DeferArm_ReturnsOpaque(tbl, obls, a, b) ==
    Outcome(Ok(IF a.k = "Opaque" THEN a ELSE b), tbl,
            Append(obls, opaque_ty_obligation(a, b)),
            <<Call("add_obligations", NoTy, a, b)>>)

\* Arm 4: add_obligations(vec![opaque_ty_obligation(a, b, ..)]); Ok(a).
DeferArm(tbl, obls, a, b) ==
    Outcome(Ok(a), tbl, Append(obls, opaque_ty_obligation(a, b)),
            <<Call("add_obligations", NoTy, a, b)>>)

\* Variants: the variable operand goes first into relate_bound.
VarLeftArm_VariableFirst(dir, tbl, obls, a, b) == PivotArm(dir, tbl, obls, a, b)
VarRightArm_VariableFirst(dir, tbl, obls, a, b) == PivotArm(dir, tbl, obls, b, a)

\* The variable operand goes second into relate_bound.
VarLeftArm(dir, tbl, obls, a, b) == PivotArm(dir, tbl, obls, b, a)
VarRightArm(dir, tbl, obls, a, b) == PivotArm(dir, tbl, obls, a, b)

\* Variant: the deferral arm is tried before the same-definition arm.
MatchKinds_DeferFirst(dir, define_opaque_types, tbl, obls, a, b) ==
    IF IsTyVar(a) THEN VarLeftArm(dir, tbl, obls, a, b)
    ELSE IF IsTyVar(b) THEN VarRightArm(dir, tbl, obls, a, b)
    ELSE IF OpaqueGuard(define_opaque_types, a, b) THEN DeferArm(tbl, obls, a, b)
    ELSE StructuralArm(tbl, obls, a, b)
\* Variant: two variables fall through to the structural relator.
MatchKinds_BothVarsFallThrough(dir, define_opaque_types, tbl, obls, a, b) ==
    IF IsTyVar(a) /\ ~IsTyVar(b) THEN VarLeftArm(dir, tbl, obls, a, b)
    ELSE IF IsTyVar(b) /\ ~IsTyVar(a) THEN VarRightArm(dir, tbl, obls, a, b)
    ELSE IF SameOpaqueDef(a, b) THEN StructuralArm(tbl, obls, a, b)
    ELSE IF OpaqueGuard(define_opaque_types, a, b) THEN DeferArm(tbl, obls, a, b)
    ELSE StructuralArm(tbl, obls, a, b)

MatchKinds(dir, define_opaque_types, tbl, obls, a, b) ==
    IF IsTyVar(a) THEN VarLeftArm(dir, tbl, obls, a, b)
    ELSE IF IsTyVar(b) THEN VarRightArm(dir, tbl, obls, a, b)
    ELSE IF SameOpaqueDef(a, b) THEN StructuralArm(tbl, obls, a, b)
    ELSE IF OpaqueGuard(define_opaque_types, a, b) THEN DeferArm(tbl, obls, a, b)
    ELSE StructuralArm(tbl, obls, a, b)

super_lattice_tys(dir, define_opaque_types, tbl, obls, a, b) ==
    IF IdentityShortCircuit(a, b)
    THEN Outcome(Ok(a), tbl, obls, <<>>)
    ELSE
        LET ra == replace_if_possible(tbl, a)
            rb == replace_if_possible(tbl, b)
            m == MatchKinds(dir, define_opaque_types, tbl, obls, ra, rb)
        IN  [m EXCEPT !.calls =
                <<Call("replace_if_possible", NoTy, a, NoTy),
                  Call("replace_if_possible", NoTy, b, NoTy)>> \o @]

(***************************************************************************)
(* State.  table and obligations belong to the inference context; the      *)
(* other variables record the one call under observation: its inputs, the  *)
(* state it started from, the collaborator calls it made and its result.   *)
(***************************************************************************)
VARIABLES table, obligations, pc, dir, define_opaque_types, in_a, in_b,
          table0, obligations0, calls, result

vars == <<table, obligations, pc, dir, define_opaque_types, in_a, in_b,
          table0, obligations0, calls, result>>

callVars == <<pc, dir, define_opaque_types, in_a, in_b, table0, obligations0,
              calls, result>>

PriorObligation == Obligation("Prior", NoTy, NoTy)

Init ==
    /\ table = <<>>
    /\ obligations = <<>>
    /\ pc = "idle"
    /\ dir = Lub
    /\ define_opaque_types = FALSE
    /\ in_a = NoTy
    /\ in_b = NoTy
    /\ table0 = <<>>
    /\ obligations0 = <<>>
    /\ calls = <<>>
    /\ result = NoResult

\* The surrounding inference allocates a variable; room is left for a pivot.
NewVar ==
    /\ pc = "idle"
    /\ Len(table) < MaxVars - 1
    /\ table' = next_ty_var(table)
    /\ UNCHANGED <<obligations, callVars>>

\* The surrounding inference binds an unbound variable to a non-variable term.
Instantiate(vid, t) ==
    /\ pc = "idle"
    /\ table[vid] = Unknown
    /\ ArgVar(t) # vid
    /\ table' = [table EXCEPT ![vid] = t]
    /\ UNCHANGED <<obligations, callVars>>

\* An earlier relation of the same operation left an obligation in the sink.
PriorRelation ==
    /\ pc = "idle"
    /\ obligations = <<>>
    /\ obligations' = <<PriorObligation>>
    /\ UNCHANGED <<table, callVars>>

ComputeLattice(d, dot, a, b) ==
    /\ pc = "idle"
    /\ LET o == super_lattice_tys(d, dot, table, obligations, a, b)
       IN  /\ table' = o.table
           /\ obligations' = o.obligations
           /\ calls' = o.calls
           /\ result' = o.res
    /\ pc' = "done"
    /\ dir' = d
    /\ define_opaque_types' = dot
    /\ in_a' = a
    /\ in_b' = b
    /\ table0' = table
    /\ obligations0' = obligations

Next ==
    \/ NewVar
    \/ \E vid \in 1..Len(table), t \in TysOver(Len(table)) \cap NonVarTys :
           Instantiate(vid, t)
    \/ PriorRelation
    \/ \E d \in Dirs, dot \in BOOLEAN, a \in TysOver(Len(table)),
          b \in TysOver(Len(table)) : ComputeLattice(d, dot, a, b)

Spec == Init /\ [][Next]_vars

TypeOK ==
    /\ pc \in {"idle", "done"}
    /\ Len(table) <= MaxVars
    /\ \A i \in 1..Len(table) : table[i] = Unknown \/ table[i] \in NonVarTys

(***************************************************************************)
(* Vocabulary of the properties: the observed call, its resolved operands  *)
(* and the collaborator calls it made.                                     *)
(***************************************************************************)
Done == pc = "done"
ResA == replace_if_possible(table0, in_a)
ResB == replace_if_possible(table0, in_b)
Pivot == TyVar(Len(table0) + 1)
CallsOf(op) == SelectSeq(calls, LAMBDA c : c.op = op)
NumCalls(op) == Len(CallsOf(op))
ResolveCalls ==
    <<Call("replace_if_possible", NoTy, in_a, NoTy),
      Call("replace_if_possible", NoTy, in_b, NoTy)>>
RelatorCall == Call("super_combine_tys", NoTy, ResA, ResB)
RelatorResult == super_combine_tys(table0, obligations0, ResA, ResB).res
PushCall == Call("add_obligations", NoTy, ResA, ResB)
BoundCall(first, second) == Call("relate_bound", Pivot, first, second)
BoundResult(first, second) ==
    relate_bound(dir, next_ty_var(table0), obligations0, Pivot, first, second).res
OneDefinition == ResA.k = "Opaque" /\ ResB.k = "Opaque" /\ ResA.id = ResB.id
LocalOpaque(t) == t.k = "Opaque" /\ is_local(t.id)
NoPivotNoBound == NumCalls("next_ty_var") = 0 /\ NumCalls("relate_bound") = 0
\* The call went through the structural relator once and returned its result.
Delegated == calls = ResolveCalls \o <<RelatorCall>> /\ result = RelatorResult
\* The call pushed one opaque obligation and returned the first operand.
Deferred ==
    /\ calls = ResolveCalls \o <<PushCall>>
    /\ obligations = Append(obligations0, opaque_ty_obligation(ResA, ResB))
    /\ table = table0
    /\ result = Ok(ResA)
\* The call allocated one pivot and related it to first, then second.
Pivoted(first, second) ==
    /\ calls = ResolveCalls \o <<Call("next_ty_var", Pivot, NoTy, NoTy),
                                 BoundCall(first, second)>>
    /\ result = (IF BoundResult(first, second).ok THEN Ok(Pivot)
                 ELSE BoundResult(first, second))

\* C1 (as stated): whenever the resolved operands are equal, also when the
\* operands as passed differ, the call returns the resolved term with no
\* structural relator call, no relate_bound, no pivot and no obligation.
C1_ResolvedEqualShortCircuits ==
    (Done /\ ResA = ResB) =>
        /\ result = Ok(ResA)
        /\ NumCalls("super_combine_tys") = 0
        /\ NoPivotNoBound
        /\ obligations = obligations0

\* C1 (amended): equal operands as passed return at once with no collaborator
\* call at all; operands that are equal only after resolution go through the
\* structural relator once, with both resolved terms, and its result is
\* returned; in both cases no relate_bound, no pivot, no obligation pushed.
C1_EqualOperands ==
    (Done /\ ResA = ResB) =>
        /\ NoPivotNoBound
        /\ NumCalls("add_obligations") = 0
        /\ obligations = obligations0
        /\ in_a = in_b => (calls = <<>> /\ result = Ok(in_a))
        /\ in_a # in_b => Delegated
C1_Witness == Done /\ ResA = ResB /\ in_a # in_b /\ ResA.k = "Opaque"

C3_PivotOrder ==
    (Done /\ in_a # in_b /\ IsTyVar(ResA) # IsTyVar(ResB)) =>
        LET nonvar == IF IsTyVar(ResA) THEN ResB ELSE ResA
            var == IF IsTyVar(ResA) THEN ResA ELSE ResB
        IN  /\ Pivoted(nonvar, var)
            /\ Pivot.id > Len(table0)
            /\ next_ty_var(table0)[Pivot.id] = Unknown
            /\ result.ok <=> BoundResult(nonvar, var).ok
            /\ result.ok => result.ty = Pivot
C3_Witness ==
    Done /\ ~IsTyVar(ResA) /\ IsTyVar(ResB) /\ result = Ok(Pivot)

\* C4: neither resolved operand a variable, exactly one of them an opaque type
\* with a local definition, opaque types allowed: one obligation built from
\* both resolved operands is pushed, nothing else is called, and the first
\* operand is returned, also when the opaque type is the second operand.
C4_OpaqueDeferral ==
    (/\ Done
     /\ ~IsTyVar(ResA)
     /\ ~IsTyVar(ResB)
     /\ LocalOpaque(ResA) # LocalOpaque(ResB)
     /\ define_opaque_types) => Deferred
C4_Witness ==
    /\ Done
    /\ ResA.k = "Other"
    /\ LocalOpaque(ResB)
    /\ define_opaque_types
    /\ result = Ok(ResA)
    /\ Len(obligations) = Len(obligations0) + 1

\* C5: two distinct opaque types of one definition are delegated to the
\* structural relator and its result returned, with no obligation pushed and
\* no pivot, whatever the policy and the locality of the definition.
C5_SameDefinitionDelegated ==
    (Done /\ OneDefinition /\ ResA # ResB) =>
        (Delegated /\ NumCalls("add_obligations") = 0 /\ NoPivotNoBound)
C5_Witness ==
    /\ Done
    /\ OneDefinition
    /\ ResA # ResB
    /\ define_opaque_types
    /\ is_local(ResA.id)
    /\ result.ok

\* C6: a failing call returns exactly the error of its one relation call
\* (relate_bound in the pivot branch, the structural relator otherwise),
\* never the pivot, and pushes no obligation of its own.
C6_ErrorsPropagate ==
    Done =>
        /\ NumCalls("relate_bound") = 1 =>
               LET c == CallsOf("relate_bound")[1]
               IN  ~BoundResult(c.x, c.y).ok =>
                       (result = BoundResult(c.x, c.y) /\ result.ty # Pivot)
        /\ (NumCalls("super_combine_tys") = 1 /\ ~RelatorResult.ok) => Delegated
        /\ ~result.ok =>
               /\ NumCalls("add_obligations") = 0
               /\ NumCalls("relate_bound") + NumCalls("super_combine_tys") = 1
               /\ calls[Len(calls)].op \in {"relate_bound", "super_combine_tys"}
C6_Witness == Done /\ ~result.ok /\ NumCalls("relate_bound") = 1

\* C7: neither resolved operand a variable, at least one opaque, not of one
\* definition, and the policy off or no opaque operand local: no obligation
\* is pushed and the result of one structural relator call is returned.
C7_DisallowedOpaqueDelegated ==
    (/\ Done
     /\ ~IsTyVar(ResA)
     /\ ~IsTyVar(ResB)
     /\ (ResA.k = "Opaque" \/ ResB.k = "Opaque")
     /\ ~OneDefinition
     /\ (~define_opaque_types \/ (~LocalOpaque(ResA) /\ ~LocalOpaque(ResB)))) =>
        (Delegated /\ NumCalls("add_obligations") = 0
                   /\ obligations = obligations0)
C7_Witness ==
    /\ Done
    /\ LocalOpaque(ResA)
    /\ ResB.k = "Other"
    /\ ~define_opaque_types
    /\ NumCalls("super_combine_tys") = 1

\* C8: equal operands, either direction: Ok(a), no collaborator call, the
\* variable table and the obligation sink as they were.
C8_Reflexivity ==
    (Done /\ in_a = in_b) =>
        /\ result = Ok(in_a)
        /\ calls = <<>>
        /\ table = table0
        /\ obligations = obligations0
C8_Witness == Done /\ in_a = in_b /\ IsTyVar(in_a) /\ table0[in_a.id] # Unknown

\* C9: Join of an unbound variable and a concrete term, in either order,
\* succeeds with a pivot that resolves to the concrete term; afterwards the
\* variable resolves to that term too and no subtype obligation is pending.
C9_VariableBoundDirectly ==
    (/\ Done
     /\ dir = Lub
     /\ \/ IsTyVar(ResA) /\ Concrete(ResB)
        \/ Concrete(ResA) /\ IsTyVar(ResB)) =>
        LET T == IF IsTyVar(ResA) THEN ResB ELSE ResA
            varX == IF IsTyVar(ResA) THEN ResA ELSE ResB
        IN  /\ result = Ok(Pivot)
            /\ replace_if_possible(table, result.ty) = T
            /\ replace_if_possible(table, varX) = T
            /\ obligations = obligations0
C9_Witness ==
    /\ Done
    /\ dir = Lub
    /\ IsTyVar(ResA)
    /\ Concrete(ResB)
    /\ table[ResA.id] = ResB

\* C10: two opaque types of different definitions, opaque types allowed: the
\* obligation is pushed and the first operand returned as soon as either
\* definition is local, also when only the second one is; the structural
\* relator is reached only when both definitions are foreign.
C10_EitherLocalDefers ==
    (/\ Done
     /\ ResA.k = "Opaque"
     /\ ResB.k = "Opaque"
     /\ ResA.id # ResB.id
     /\ define_opaque_types) =>
        /\ (is_local(ResA.id) \/ is_local(ResB.id)) => Deferred
        /\ NumCalls("super_combine_tys") > 0 =>
               (~is_local(ResA.id) /\ ~is_local(ResB.id))
        /\ (~is_local(ResA.id) /\ ~is_local(ResB.id)) => Delegated
C10_Witness ==
    /\ Done
    /\ ResA.k = "Opaque"
    /\ ResB.k = "Opaque"
    /\ ~is_local(ResA.id)
    /\ is_local(ResB.id)
    /\ define_opaque_types
    /\ result = Ok(ResA)

====
